---------------------------- MODULE Spec2Model ----------------------------
(***************************************************************************)
(* Model of oralordos/separation (src/main.go): a JSON-over-HTTP user      *)
(* registry in three layers.                                               *)
(*   Action layer    MemoryUserStorage  (an unsynchronized Go map)         *)
(*   Business logic  UserServiceImpl    (check-then-save Register)         *)
(*   Access layer    JsonOverHTTP       (method check, decode, validate,   *)
(*                                       error -> status mapping)          *)
(* net/http runs every request's handler on its own goroutine, so the      *)
(* handlers interleave at their accesses to the one shared map.            *)
(*                                                                         *)
(* Go strings are modelled as tuples of one-character strings, so that     *)
(* strings.ContainsRune is computed and not assumed.  A nil pointer, an    *)
(* absent JSON field and a missing query parameter are the empty tuple     *)
(* <<>>, a present value v is the one-element tuple <<v>>.                 *)
(***************************************************************************)
EXTENDS Naturals, Sequences, FiniteSets

\* ------------------------------------------------------------------ bounds

\* Number of HTTP requests the server receives in one behaviour.
MaxReqs == 3

Reqs == 1..MaxReqs

\* --------------------------------------------------------------- constants

StatusOK == 200
StatusCreated == 201
StatusBadRequest == 400
StatusForbidden == 403
StatusNotFound == 404
StatusMethodNotAllowed == 405
StatusInternalServerError == 500

MethodGet == "GET"
MethodPost == "POST"

\* A nil error.
Nil == "nil"

ErrUserNotFound == "User not found"

ErrEmailExists == "Email is already in use"

\* ------------------------------------------------------------ input values

EmptyStr == <<>>
NoAtEmail == <<"a">>
EmailA == <<"a", "@">>
EmailB == <<"b", "@">>
NameX == <<"x">>
NameY == <<"y">>

Methods == {MethodGet, MethodPost}

\* A request body: wf is FALSE for a body json.Decoder rejects (malformed
\* JSON, a field of the wrong type); a field of the object is <<>> when the
\* object does not have it and <<s>> when it has the string s.
MalformedBody == [wf |-> FALSE, email |-> <<>>, name |-> <<>>]

JsonBodies ==
    [wf : {TRUE},
     email : {<<>>, <<NoAtEmail>>, <<EmailA>>, <<EmailB>>},
     name : {<<EmptyStr>>, <<NameX>>, <<NameY>>}]

ValidBody == [wf |-> TRUE, email |-> <<EmailA>>, name |-> <<NameX>>]

\* What a client may send to /register: with POST every body, with another
\* method a well-formed valid body or a malformed one.
RegisterInputs ==
    [kind : {"Register"}, method : {MethodPost},
     body : JsonBodies \cup {MalformedBody}, query : {<<>>}]
    \cup
    [kind : {"Register"}, method : Methods \ {MethodPost},
     body : {ValidBody, MalformedBody}, query : {<<>>}]

\* What a client may send to /user: the query is <<>> when it has no email
\* parameter and <<s>> when it has email=s.
GetUserInputs ==
    [kind : {"GetUser"}, method : {MethodGet},
     body : {MalformedBody},
     query : {<<>>, <<EmptyStr>>, <<NoAtEmail>>, <<EmailA>>, <<EmailB>>}]
    \cup
    [kind : {"GetUser"}, method : Methods \ {MethodGet},
     body : {MalformedBody}, query : {<<>>, <<EmailA>>}]

NoInput == [kind |-> "none", method |-> "", body |-> MalformedBody, query |-> <<>>]

NoParams == [Email |-> EmptyStr, Name |-> EmptyStr]

NoResp == [status |-> 0, text |-> "", json |-> <<>>]

\* ------------------------------------------------------------ action layer

\* strings.ContainsRune
ContainsRune(s, c) == \E i \in DOMAIN s : s[i] = c

\* MemoryUserStorage.Get: the stored pointer and nil, or nil and
\* ErrUserNotFound.
MemoryUserStorage_Get(s, email) ==
    IF email \in DOMAIN s
    THEN [user |-> <<s[email]>>, err |-> Nil]
    ELSE [user |-> <<>>, err |-> ErrUserNotFound]

\* Mutant of Save: an insert-if-absent that refuses a key already present.
MemoryUserStorage_Save_ifAbsent(s, user) ==
    IF user.Email \in DOMAIN s
    THEN [store |-> s, err |-> "Email is already in use"]
    ELSE [store |-> [k \in DOMAIN s \cup {user.Email} |->
                        IF k = user.Email THEN user ELSE s[k]],
          err |-> "nil"]

\* Mutant of Save: the record is stored under its Name.
MemoryUserStorage_Save_keyedByName(s, user) ==
    [store |-> [k \in DOMAIN s \cup {user.Name} |->
                    IF k = user.Name THEN user ELSE s[k]],
     err |-> "nil"]

\* MemoryUserStorage.Save: ms.store[user.Email] = user; return nil.
MemoryUserStorage_Save(s, user) ==
    [store |-> [k \in DOMAIN s \cup {user.Email} |->
                    IF k = user.Email THEN user ELSE s[k]],
     err |-> Nil]

\* ---------------------------------------------------------- business logic

\* Mutant of Validate: the name is not checked.
Validate_nameUnchecked(rp) ==
    IF rp.Email = EmptyStr THEN "Email cannot be empty"
    ELSE IF ~ContainsRune(rp.Email, "@") THEN "Email must include an '@' symbol"
    ELSE "nil"

\* Mutant of Validate: the '@' is not checked.
Validate_atUnchecked(rp) ==
    IF rp.Email = EmptyStr THEN "Email cannot be empty"
    ELSE IF rp.Name = EmptyStr THEN "Name cannot be empty"
    ELSE "nil"

\* Mutant of Validate: the name is checked first.
Validate_nameFirst(rp) ==
    IF rp.Name = EmptyStr THEN "Name cannot be empty"
    ELSE IF rp.Email = EmptyStr THEN "Email cannot be empty"
    ELSE IF ~ContainsRune(rp.Email, "@") THEN "Email must include an '@' symbol"
    ELSE "nil"

\* RegisterParams.Validate: the first violation's message, or nil.
Validate(rp) ==
    IF rp.Email = EmptyStr THEN "Email cannot be empty"
    ELSE IF ~ContainsRune(rp.Email, "@") THEN "Email must include an '@' symbol"
    ELSE IF rp.Name = EmptyStr THEN "Name cannot be empty"
    ELSE Nil

\* Mutant of Register: a found record does not stop the registration.
Register_afterGet_noConflict(err) ==
    IF err # "nil" /\ err # ErrUserNotFound THEN [ret |-> TRUE, err |-> err]
    ELSE [ret |-> FALSE, err |-> "nil"]

\* Mutant of Register: every error of Get is taken for "not found".
Register_afterGet_anyErrorAbsent(err) ==
    IF err = Nil THEN [ret |-> TRUE, err |-> ErrEmailExists]
    ELSE [ret |-> FALSE, err |-> Nil]

\* Mutant of Register: the test of Get's error is inverted.
Register_afterGet_inverted(err) ==
    IF err # Nil THEN [ret |-> TRUE, err |-> ErrEmailExists]
    ELSE [ret |-> FALSE, err |-> Nil]

\* UserServiceImpl.Register, from the result of its Get to its Save:
\* ret is TRUE when Register returns err without saving.
Register_afterGet(err) ==
    IF err = Nil THEN [ret |-> TRUE, err |-> ErrEmailExists]
    ELSE IF err # ErrUserNotFound THEN [ret |-> TRUE, err |-> err]
    ELSE [ret |-> FALSE, err |-> Nil]

\* The User that Register hands to Save.
Register_newUser(rp) == [Email |-> rp.Email, Name |-> rp.Name]

\* ------------------------------------------------------------ access layer

\* json.Decoder.Decode into a zero RegisterParams: an absent field keeps
\* the zero value "".
Decode(body) ==
    [err |-> IF body.wf THEN Nil ELSE "Unable to read your request",
     params |-> IF body.wf
                THEN [Email |-> IF body.email = <<>> THEN EmptyStr ELSE body.email[1],
                      Name |-> IF body.name = <<>> THEN EmptyStr ELSE body.name[1]]
                ELSE NoParams]

\* http.Request.FormValue("email"): "" when the parameter is missing.
FormValue(query) == IF query = <<>> THEN EmptyStr ELSE query[1]

\* json.Encoder.Encode of a User: an object with the tagged field names.
Encode(u) == [email |-> u.Email, name |-> u.Name]

\* Mutant of validateEmail: the '@' is not checked.
validateEmail_atUnchecked(email) ==
    IF email = EmptyStr THEN "Email must not be empty" ELSE "nil"

\* JsonOverHTTP.validateEmail
validateEmail(email) ==
    IF email = EmptyStr THEN "Email must not be empty"
    ELSE IF ~ContainsRune(email, "@") THEN "Email must include an '@' symbol"
    ELSE Nil

\* http.Error(w, text, code)
HttpError(text, code) == [status |-> code, text |-> text, json |-> <<>>]

\* Mutant of the Register handler: the body is decoded before the method is
\* checked.
Register_entry_decodeFirst(method, body) ==
    IF Decode(body).err # Nil
    THEN [resp |-> HttpError(Decode(body).err, StatusBadRequest), params |-> NoParams]
    ELSE IF method # MethodPost
    THEN [resp |-> HttpError("Register requires a post request", StatusMethodNotAllowed),
          params |-> NoParams]
    ELSE IF Validate(Decode(body).params) # Nil
    THEN [resp |-> HttpError(Validate(Decode(body).params), StatusBadRequest),
          params |-> Decode(body).params]
    ELSE [resp |-> NoResp, params |-> Decode(body).params]

\* JsonOverHTTP.Register up to its call of the service: the response when
\* the handler returns early (resp.status # 0), else the decoded params.
Register_entry(method, body) ==
    IF method # MethodPost
    THEN [resp |-> HttpError("Register requires a post request", StatusMethodNotAllowed),
          params |-> NoParams]
    ELSE IF Decode(body).err # Nil
    THEN [resp |-> HttpError(Decode(body).err, StatusBadRequest), params |-> NoParams]
    ELSE IF Validate(Decode(body).params) # Nil
    THEN [resp |-> HttpError(Validate(Decode(body).params), StatusBadRequest),
          params |-> Decode(body).params]
    ELSE [resp |-> NoResp, params |-> Decode(body).params]

\* Mutant of the Register handler: only ErrEmailExists is looked at.
Register_respond_otherErrorsDropped(err) ==
    IF err = ErrEmailExists THEN HttpError(err, StatusForbidden)
    ELSE [status |-> StatusCreated, text |-> "", json |-> <<>>]

\* JsonOverHTTP.Register after the service returned err.
Register_respond(err) ==
    IF err = ErrEmailExists THEN HttpError(err, StatusForbidden)
    ELSE IF err # Nil THEN HttpError(err, StatusInternalServerError)
    ELSE [status |-> StatusCreated, text |-> "", json |-> <<>>]

\* JsonOverHTTP.GetUser up to its call of the service.
GetUser_entry(method, query) ==
    IF method # MethodGet
    THEN [resp |-> HttpError("GetUser requires a get request", StatusMethodNotAllowed),
          email |-> EmptyStr]
    ELSE IF validateEmail(FormValue(query)) # Nil
    THEN [resp |-> HttpError(validateEmail(FormValue(query)), StatusBadRequest),
          email |-> FormValue(query)]
    ELSE [resp |-> NoResp, email |-> FormValue(query)]

\* Mutant of the GetUser handler: every error of the service is an internal
\* error.
GetUser_respond_allInternal(res) ==
    IF res.err # Nil THEN HttpError(res.err, StatusInternalServerError)
    ELSE [status |-> StatusOK, text |-> "", json |-> <<Encode(res.user[1])>>]

\* JsonOverHTTP.GetUser after the service returned (u, err); the first
\* write of the encoder sends the implicit 200.
GetUser_respond(res) ==
    IF res.err = ErrUserNotFound THEN HttpError(res.err, StatusNotFound)
    ELSE IF res.err # Nil THEN HttpError(res.err, StatusInternalServerError)
    ELSE [status |-> StatusOK, text |-> "", json |-> <<Encode(res.user[1])>>]


\* ------------------------------------------------------------------- state

VARIABLES
    store,        \* MemoryUserStorage.store: the map from email to *User
    crashed,      \* the Go runtime ended the process with a fatal error
    nStarted,     \* how many requests the server has accepted
    req,          \* req[r]: what the client sent as request r
    pc,           \* pc[r]: where the handler of request r stands
    params,       \* params[r]: the handler's decoded params (GetUser: email)
    resp,         \* resp[r]: the response written for request r
    obs,          \* obs[r]: what request r did and saw (history)
    regOverlap,   \* two Register requests were in flight at the same time
    savedEmails   \* the emails Storage.Save has been called for (history)

vars == <<store, crashed, nStarted, req, pc, params, resp, obs, regOverlap,
          savedEmails>>

\* gets, saves, svc: the calls request r made of Storage.Get, Storage.Save and
\* of the service; getErr: what its Storage.Get returned; startUser: the
\* record its email had in the store when it started; okNames: the names of
\* the registrations of its email that had ended with 201 when it started;
\* raceWith: the Register requests for its email that had passed their Get and
\* not yet called Save when it performed its Get; savesSeen: the requests
\* whose Save for its email had returned when it performed its Get; saveErr:
\* what its Storage.Save returned.
NoObs ==
    [gets |-> 0, saves |-> 0, svc |-> 0, getErr |-> "none", startUser |-> <<>>,
     okNames |-> {}, raceWith |-> {}, savesSeen |-> {}, saveErr |-> "none"]

\* NewMemoryUserStorage, NewUserServiceImpl, NewJsonOverHTTP: an empty map and
\* no request yet.
Init ==
    /\ store = [k \in {} |-> NoParams]
    /\ crashed = FALSE
    /\ nStarted = 0
    /\ req = [r \in Reqs |-> NoInput]
    /\ pc = [r \in Reqs |-> "idle"]
    /\ params = [r \in Reqs |-> NoParams]
    /\ resp = [r \in Reqs |-> NoResp]
    /\ obs = [r \in Reqs |-> NoObs]
    /\ regOverlap = FALSE
    /\ savedEmails = {}

IsRegister(r) == req[r].kind = "Register"

IsGetUser(r) == req[r].kind = "GetUser"

\* The handler of r is between its call of the service and its response.
InFlight(r) == pc[r] \in {"get", "save"}

Done(r) == pc[r] = "done"

\* ----------------------------------------------------------------- actions

\* A request for /register arrives: the router dispatches to
\* JsonOverHTTP.Register, which checks the method, decodes and validates, and
\* then either answers or calls UserServiceImpl.Register.
RegisterStart(r, in) ==
    /\ ~crashed
    /\ r = nStarted + 1
    /\ nStarted' = r
    /\ req' = [req EXCEPT ![r] = in]
    /\ LET e == Register_entry(in.method, in.body) IN
        /\ params' = [params EXCEPT ![r] = e.params]
        /\ IF e.resp.status # 0
           THEN /\ resp' = [resp EXCEPT ![r] = e.resp]
                /\ pc' = [pc EXCEPT ![r] = "done"]
                /\ UNCHANGED <<obs, regOverlap>>
           ELSE /\ pc' = [pc EXCEPT ![r] = "get"]
                /\ obs' = [obs EXCEPT ![r].svc = 1,
                               ![r].startUser =
                                   MemoryUserStorage_Get(store, e.params.Email).user]
                /\ regOverlap' =
                       (regOverlap \/ \E q \in Reqs : IsRegister(q) /\ InFlight(q))
                /\ UNCHANGED resp
    /\ UNCHANGED <<store, crashed, savedEmails>>

\* UserServiceImpl.Register calls Storage.Get and decides.
RegisterGet(r) ==
    /\ ~crashed
    /\ IsRegister(r)
    /\ pc[r] = "get"
    /\ LET res == MemoryUserStorage_Get(store, params[r].Email)
           d == Register_afterGet(res.err)
       IN
        /\ obs' = [obs EXCEPT ![r].gets = @ + 1,
                       ![r].getErr = res.err,
                       ![r].raceWith =
                           {q \in Reqs \ {r} : /\ IsRegister(q)
                                               /\ pc[q] = "save"
                                               /\ params[q].Email = params[r].Email},
                       ![r].savesSeen =
                           {q \in Reqs : /\ IsRegister(q)
                                         /\ Done(q)
                                         /\ obs[q].saves > 0
                                         /\ params[q].Email = params[r].Email}]
        /\ IF d.ret
           THEN /\ resp' = [resp EXCEPT ![r] = Register_respond(d.err)]
                /\ pc' = [pc EXCEPT ![r] = "done"]
           ELSE /\ pc' = [pc EXCEPT ![r] = "save"]
                /\ UNCHANGED resp
    /\ UNCHANGED <<store, crashed, nStarted, req, params, regOverlap, savedEmails>>

\* UserServiceImpl.Register calls Storage.Save with a new User, Save and
\* Register return and the handler answers.
RegisterSave(r) ==
    /\ ~crashed
    /\ IsRegister(r)
    /\ pc[r] = "save"
    /\ LET sv == MemoryUserStorage_Save(store, Register_newUser(params[r])) IN
        /\ store' = sv.store
        /\ resp' = [resp EXCEPT ![r] = Register_respond(sv.err)]
    /\ obs' = [obs EXCEPT ![r].saves = @ + 1,
                   ![r].saveErr =
                       MemoryUserStorage_Save(store, Register_newUser(params[r])).err]
    /\ savedEmails' = savedEmails \cup {params[r].Email}
    /\ pc' = [pc EXCEPT ![r] = "done"]
    /\ UNCHANGED <<crashed, nStarted, req, params, regOverlap>>

\* A request for /user arrives: the router dispatches to JsonOverHTTP.GetUser,
\* which checks the method and the email and then either answers or calls
\* UserServiceImpl.GetByEmail.
GetUserStart(r, in) ==
    /\ ~crashed
    /\ r = nStarted + 1
    /\ nStarted' = r
    /\ req' = [req EXCEPT ![r] = in]
    /\ LET e == GetUser_entry(in.method, in.query) IN
        /\ params' = [params EXCEPT ![r] = [Email |-> e.email, Name |-> EmptyStr]]
        /\ IF e.resp.status # 0
           THEN /\ resp' = [resp EXCEPT ![r] = e.resp]
                /\ pc' = [pc EXCEPT ![r] = "done"]
                /\ UNCHANGED obs
           ELSE /\ pc' = [pc EXCEPT ![r] = "get"]
                /\ obs' = [obs EXCEPT ![r].svc = 1,
                               ![r].startUser =
                                   MemoryUserStorage_Get(store, e.email).user,
                               ![r].okNames =
                                   {params[q].Name : q \in
                                       {q \in Reqs : /\ IsRegister(q)
                                                     /\ Done(q)
                                                     /\ resp[q].status = StatusCreated
                                                     /\ params[q].Email = e.email}}]
                /\ UNCHANGED resp
    /\ UNCHANGED <<store, crashed, regOverlap, savedEmails>>

\* Mutant of GetUser: the handler blanks the Name of the *User it got, which
\* is the pointer the map holds, after encoding it.
GetUserGet_scrubbing(r) ==
    /\ ~crashed
    /\ IsGetUser(r)
    /\ pc[r] = "get"
    /\ resp' = [resp EXCEPT ![r] =
                   GetUser_respond(MemoryUserStorage_Get(store, params[r].Email))]
    /\ store' = [k \in DOMAIN store |->
                    IF k = params[r].Email
                    THEN [Email |-> store[k].Email, Name |-> EmptyStr]
                    ELSE store[k]]
    /\ obs' = [obs EXCEPT ![r].gets = @ + 1,
                   ![r].getErr = MemoryUserStorage_Get(store, params[r].Email).err,
                   ![r].savesSeen =
                       {q \in Reqs : /\ IsRegister(q)
                                     /\ Done(q)
                                     /\ obs[q].saves > 0
                                     /\ params[q].Email = params[r].Email}]
    /\ pc' = [pc EXCEPT ![r] = "done"]
    /\ UNCHANGED <<crashed, nStarted, req, params, regOverlap, savedEmails>>

\* UserServiceImpl.GetByEmail calls Storage.Get and the handler answers.
GetUserGet(r) ==
    /\ ~crashed
    /\ IsGetUser(r)
    /\ pc[r] = "get"
    /\ resp' = [resp EXCEPT ![r] =
                   GetUser_respond(MemoryUserStorage_Get(store, params[r].Email))]
    /\ obs' = [obs EXCEPT ![r].gets = @ + 1,
                   ![r].getErr = MemoryUserStorage_Get(store, params[r].Email).err,
                   ![r].savesSeen =
                       {q \in Reqs : /\ IsRegister(q)
                                     /\ Done(q)
                                     /\ obs[q].saves > 0
                                     /\ params[q].Email = params[r].Email}]
    /\ pc' = [pc EXCEPT ![r] = "done"]
    /\ UNCHANGED <<store, crashed, nStarted, req, params, regOverlap, savedEmails>>

\* Request r is about to read or assign the map while another request q is
\* about to assign it, and nothing orders the two accesses: a data race.  The
\* Go runtime either performs them in some order (the actions above) or
\* detects the race and ends the process ("fatal error: concurrent map
\* writes", "concurrent map read and map write").
ConcurrentMapAccess(r) ==
    /\ ~crashed
    /\ pc[r] \in {"get", "save"}
    /\ \E q \in Reqs \ {r} : pc[q] = "save"
    /\ crashed' = TRUE
    /\ UNCHANGED <<store, nStarted, req, pc, params, resp, obs, regOverlap,
                   savedEmails>>

Next ==
    \E r \in Reqs :
        \/ \E in \in RegisterInputs : RegisterStart(r, in)
        \/ RegisterGet(r)
        \/ RegisterSave(r)
        \/ \E in \in GetUserInputs : GetUserStart(r, in)
        \/ GetUserGet(r)
        \/ ConcurrentMapAccess(r)

Spec == Init /\ [][Next]_vars

\* ------------------------------------------------- any UserStorer behind it

\* UserServiceImpl and JsonOverHTTP hold a UserStorer, not a
\* MemoryUserStorage: another implementation (a database) may fail.  Its Get
\* and Save are those of the map, or return one of these errors and leave the
\* records as they are.
ErrStorage == "storage failure"

StorerErrors == {ErrStorage, ErrEmailExists}

\* UserServiceImpl.Register calls Storage.Get, which returns (nil, err).
RegisterGetFails(r, err) ==
    /\ IsRegister(r)
    /\ pc[r] = "get"
    /\ obs' = [obs EXCEPT ![r].gets = @ + 1, ![r].getErr = err]
    /\ IF Register_afterGet(err).ret
       THEN /\ resp' = [resp EXCEPT ![r] =
                           Register_respond(Register_afterGet(err).err)]
            /\ pc' = [pc EXCEPT ![r] = "done"]
       ELSE /\ pc' = [pc EXCEPT ![r] = "save"]
            /\ UNCHANGED resp
    /\ UNCHANGED <<store, crashed, nStarted, req, params, regOverlap, savedEmails>>

\* UserServiceImpl.Register calls Storage.Save, which returns err; Register
\* returns it and the handler answers.
RegisterSaveFails(r, err) ==
    /\ IsRegister(r)
    /\ pc[r] = "save"
    /\ resp' = [resp EXCEPT ![r] = Register_respond(err)]
    /\ obs' = [obs EXCEPT ![r].saves = @ + 1, ![r].saveErr = err]
    /\ pc' = [pc EXCEPT ![r] = "done"]
    /\ UNCHANGED <<store, crashed, nStarted, req, params, regOverlap, savedEmails>>

\* UserServiceImpl.GetByEmail calls Storage.Get, which returns (nil, err), and
\* the handler answers.
GetUserGetFails(r, err) ==
    /\ IsGetUser(r)
    /\ pc[r] = "get"
    /\ resp' = [resp EXCEPT ![r] = GetUser_respond([user |-> <<>>, err |-> err])]
    /\ obs' = [obs EXCEPT ![r].gets = @ + 1, ![r].getErr = err]
    /\ pc' = [pc EXCEPT ![r] = "done"]
    /\ UNCHANGED <<store, crashed, nStarted, req, params, regOverlap, savedEmails>>

\* The requests sent when the storer may fail: registrations of two emails,
\* one of them under two names, one rejected by Validate, and a lookup.
AnyStorerRegisterInputs ==
    [kind : {"Register"}, method : {MethodPost},
     body : {[wf |-> TRUE, email |-> <<EmailA>>, name |-> <<NameX>>],
             [wf |-> TRUE, email |-> <<EmailA>>, name |-> <<NameY>>],
             [wf |-> TRUE, email |-> <<EmailB>>, name |-> <<NameX>>],
             [wf |-> TRUE, email |-> <<NoAtEmail>>, name |-> <<NameX>>]},
     query : {<<>>}]

AnyStorerGetUserInputs ==
    [kind : {"GetUser"}, method : {MethodGet}, body : {MalformedBody},
     query : {<<EmailA>>}]

\* The requests over a UserStorer that may fail.  The storer synchronizes its
\* own accesses, so there is no ConcurrentMapAccess here.
NextAnyStorer ==
    \E r \in Reqs :
        \/ \E in \in AnyStorerRegisterInputs : RegisterStart(r, in)
        \/ RegisterGet(r)
        \/ RegisterSave(r)
        \/ \E in \in AnyStorerGetUserInputs : GetUserStart(r, in)
        \/ GetUserGet(r)
        \/ \E err \in StorerErrors : RegisterGetFails(r, err)
        \/ \E err \in StorerErrors : RegisterSaveFails(r, err)
        \/ \E err \in StorerErrors : GetUserGetFails(r, err)

SpecAnyStorer == Init /\ [][NextAnyStorer]_vars

\* ------------------------------------------------------------------ claims

\* Request r is a POST /register whose body decodes to params that pass
\* Validate.
ValidRegister(r) ==
    /\ IsRegister(r)
    /\ req[r].method = MethodPost
    /\ Decode(req[r].body).err = Nil
    /\ Validate(Decode(req[r].body).params) = Nil

\* Request r is a GET /user whose email parameter passes validateEmail.
ValidGetUser(r) ==
    /\ IsGetUser(r)
    /\ req[r].method = MethodGet
    /\ validateEmail(FormValue(req[r].query)) = Nil

\* Request r called neither the service nor the storage.
NoCalls(r) == obs[r].svc = 0 /\ obs[r].gets = 0 /\ obs[r].saves = 0

\* The record the store holds for an email: <<>> or <<user>>.
Stored(email) == MemoryUserStorage_Get(store, email).user

\* C1: as long as no two Register requests have been in flight together, a
\* finished Register request with valid params whose email was in the store
\* when it started has answered 403 with ErrEmailExists, has called Save zero
\* times, and the store still holds for its email the record it held when the
\* request started.
C1_DuplicateRegisterConflicts ==
    ~regOverlap =>
        \A r \in Reqs :
            (ValidRegister(r) /\ Done(r) /\ obs[r].startUser # <<>>) =>
                /\ resp[r] = HttpError(ErrEmailExists, StatusForbidden)
                /\ obs[r].saves = 0
                /\ Stored(params[r].Email) = obs[r].startUser

C1_Witness ==
    /\ ~regOverlap
    /\ \E r \in Reqs :
        /\ ValidRegister(r) /\ Done(r)
        /\ obs[r].startUser # <<>>
        /\ obs[r].startUser[1].Name # Decode(req[r].body).params.Name
        /\ resp[r].status = StatusForbidden

\* C2: when two Register requests for one email have both received
\* ErrUserNotFound from Storage.Get before either called Storage.Save, then
\* once both have finished both have answered 201.
C2_RacingRegistersBothCreated ==
    \A r \in Reqs : \A q \in obs[r].raceWith :
        (obs[r].getErr = ErrUserNotFound /\ Done(r) /\ Done(q)) =>
            /\ resp[r].status = StatusCreated
            /\ resp[q].status = StatusCreated

C2_Witness ==
    \E r \in Reqs : \E q \in obs[r].raceWith :
        /\ ValidRegister(r) /\ ValidRegister(q)
        /\ params[r].Email = params[q].Email
        /\ obs[r].getErr = ErrUserNotFound /\ obs[q].getErr = ErrUserNotFound
        /\ Done(r) /\ Done(q)
        /\ resp[r].status = StatusCreated /\ resp[q].status = StatusCreated

\* C3: a finished GetUser request has answered 200 with exactly the email and
\* name of every registration of its email that had ended with 201 before the
\* GetUser request started.
C3_GetUserReturnsRegistered ==
    \A r \in Reqs :
        (IsGetUser(r) /\ Done(r)) =>
            \A n \in obs[r].okNames :
                /\ resp[r].status = StatusOK
                /\ resp[r].json = <<[email |-> params[r].Email, name |-> n]>>

\* C4: every record of the store is stored under the key equal to its Email
\* field, and no two keys hold a record with the same Email.
C4_OneRecordPerEmail ==
    \A k \in DOMAIN store :
        /\ store[k].Email = k
        /\ Cardinality({j \in DOMAIN store : store[j].Email = store[k].Email}) = 1

C4_Witness ==
    /\ Cardinality(DOMAIN store) = 2
    /\ \E r, q \in Reqs :
        /\ r # q
        /\ params[r].Email = params[q].Email
        /\ obs[r].saves = 1 /\ obs[q].saves = 1

\* Request r is a POST /register whose body decodes to params with an empty
\* email, an email without '@' or an empty name.
InvalidRegister(r) ==
    /\ IsRegister(r)
    /\ req[r].method = MethodPost
    /\ Decode(req[r].body).err = Nil
    /\ \/ Decode(req[r].body).params.Email = EmptyStr
       \/ ~ContainsRune(Decode(req[r].body).params.Email, "@")
       \/ Decode(req[r].body).params.Name = EmptyStr

\* C5: a finished POST /register whose decoded params have an empty email, an
\* email without '@' or an empty name has
\* answered 400 and has called neither Service.Register nor Storage.Get nor
\* Storage.Save; and the step in which such a request is answered leaves the
\* store as it was.
C5_InvalidRegisterRejected ==
    /\ [](\A r \in Reqs :
            (InvalidRegister(r) /\ Done(r)) =>
                resp[r].status = StatusBadRequest /\ NoCalls(r))
    /\ [][\A r \in Reqs :
            (pc[r] = "idle" /\ InvalidRegister(r)') => store' = store]_vars

C5_Witness ==
    /\ DOMAIN store # {}
    /\ \E r \in Reqs :
        /\ InvalidRegister(r) /\ Done(r)
        /\ Decode(req[r].body).params.Email = EmailB
        /\ Decode(req[r].body).params.Name = EmptyStr
        /\ resp[r].status = StatusBadRequest
        /\ Stored(EmailB) = <<>>

\* C6: a finished GET /user with a non-empty email containing '@' for which
\* Storage.Save has never been called has answered 404 with ErrUserNotFound.
C6_UnregisteredIsNotFound ==
    \A r \in Reqs :
        (ValidGetUser(r) /\ Done(r) /\ FormValue(req[r].query) \notin savedEmails) =>
            resp[r] = HttpError(ErrUserNotFound, StatusNotFound)

C6_Witness ==
    \E r \in Reqs :
        /\ ValidGetUser(r) /\ Done(r)
        /\ FormValue(req[r].query) \notin savedEmails
        /\ savedEmails # {}
        /\ resp[r].status = StatusNotFound

\* C7: a finished GET /user whose email parameter is missing, empty or
\* without '@' has answered 400 and has called neither Service.GetByEmail nor
\* Storage.Get.
C7_InvalidGetUserRejected ==
    \A r \in Reqs :
        (/\ IsGetUser(r) /\ Done(r)
         /\ req[r].method = MethodGet
         /\ \/ req[r].query = <<>>
            \/ FormValue(req[r].query) = EmptyStr
            \/ ~ContainsRune(FormValue(req[r].query), "@")) =>
            resp[r].status = StatusBadRequest /\ NoCalls(r)

C7_Witness ==
    /\ \E r \in Reqs :
        /\ IsGetUser(r) /\ Done(r) /\ req[r].method = MethodGet
        /\ req[r].query = <<>>
        /\ resp[r].status = StatusBadRequest
    /\ \E r \in Reqs :
        /\ IsGetUser(r) /\ Done(r) /\ req[r].method = MethodGet
        /\ req[r].query = <<NoAtEmail>>
        /\ resp[r].status = StatusBadRequest

\* Request r came with a method its handler does not accept.
WrongMethod(r) ==
    \/ IsRegister(r) /\ req[r].method # MethodPost
    \/ IsGetUser(r) /\ req[r].method # MethodGet

\* C8: a finished request with a method its handler does not accept has
\* answered 405, whatever its body or query, and has called neither the
\* service nor Storage.Get nor Storage.Save; and the step in which such a
\* request is answered leaves the store as it was.
C8_WrongMethodRejected ==
    /\ [](\A r \in Reqs :
            (WrongMethod(r) /\ Done(r)) =>
                resp[r].status = StatusMethodNotAllowed /\ NoCalls(r))
    /\ [][\A r \in Reqs :
            (pc[r] = "idle" /\ WrongMethod(r)') => store' = store]_vars

C8_Witness ==
    /\ DOMAIN store # {}
    /\ \E r \in Reqs :
        /\ IsRegister(r) /\ Done(r) /\ req[r].method # MethodPost
        /\ req[r].body = MalformedBody
        /\ resp[r].status = StatusMethodNotAllowed
    /\ \E r \in Reqs :
        /\ IsGetUser(r) /\ Done(r) /\ req[r].method # MethodGet
        /\ req[r].query = <<>>
        /\ resp[r].status = StatusMethodNotAllowed

\* C9: no step of a GetUser request changes the store; and two finished
\* GetUser requests for one email whose Storage.Get calls saw the same Saves
\* of that email completed have written the same response (status and User).
C9_GetUserReadOnlyRepeatable ==
    /\ [](\A r, q \in Reqs :
            (/\ ValidGetUser(r) /\ ValidGetUser(q)
             /\ Done(r) /\ Done(q)
             /\ params[r].Email = params[q].Email
             /\ obs[r].savesSeen = obs[q].savesSeen) =>
                resp[r] = resp[q])
    /\ [][\A r \in Reqs :
            (IsGetUser(r)' /\ pc'[r] # pc[r]) => store' = store]_vars

C9_Witness ==
    \E r, q \in Reqs :
        /\ r # q
        /\ ValidGetUser(r) /\ ValidGetUser(q)
        /\ Done(r) /\ Done(q)
        /\ params[r].Email = params[q].Email
        /\ obs[r].savesSeen = obs[q].savesSeen
        /\ obs[r].savesSeen # {}
        /\ resp[r].status = StatusOK
        /\ resp[q].status = StatusOK

\* C10: the process is never ended by a request.
C10_NoProcessTermination == ~crashed

\* C12 as claimed: no step removes an email from the store or changes the
\* name stored for it.
C12_RecordsNeverChange ==
    [][\A k \in DOMAIN store :
          k \in DOMAIN store' /\ store'[k].Name = store[k].Name]_vars

\* The part of C12 that the code keeps: no step removes an email from the
\* store.
C12_EmailsStayPresent ==
    [][\A k \in DOMAIN store : k \in DOMAIN store']_vars

\* C13: every record of the store has a non-empty email that contains '@'
\* and a non-empty name.
C13_StoredRecordsAreValid ==
    \A k \in DOMAIN store :
        /\ store[k].Email # EmptyStr
        /\ ContainsRune(store[k].Email, "@")
        /\ store[k].Name # EmptyStr

C13_Witness ==
    /\ Cardinality(DOMAIN store) = 2
    /\ \E r \in Reqs :
        /\ InvalidRegister(r) /\ Done(r)
        /\ ~ContainsRune(Decode(req[r].body).params.Email, "@")
        /\ Decode(req[r].body).params.Email # EmptyStr

\* C14: a finished POST /register whose decoded email is empty has answered
\* with the empty-email message whatever its name, and one whose decoded
\* email is not empty and has no '@' has answered with the '@' message even
\* when its name is empty too; only a valid email with an empty name gets the
\* empty-name message.
C14_FirstViolationReported ==
    \A r \in Reqs :
        (InvalidRegister(r) /\ Done(r)) =>
            LET rp == Decode(req[r].body).params IN
                /\ rp.Email = EmptyStr =>
                       resp[r].text = "Email cannot be empty"
                /\ (rp.Email # EmptyStr /\ ~ContainsRune(rp.Email, "@")) =>
                       resp[r].text = "Email must include an '@' symbol"
                /\ (rp.Email # EmptyStr /\ ContainsRune(rp.Email, "@")) =>
                       resp[r].text = "Name cannot be empty"

C14_Witness ==
    /\ \E r \in Reqs :
        /\ InvalidRegister(r) /\ Done(r)
        /\ Decode(req[r].body).params = [Email |-> EmptyStr, Name |-> EmptyStr]
        /\ resp[r].text = "Email cannot be empty"
    /\ \E r \in Reqs :
        /\ InvalidRegister(r) /\ Done(r)
        /\ Decode(req[r].body).params = [Email |-> EmptyStr, Name |-> NameX]
        /\ resp[r].text = "Email cannot be empty"
    /\ \E r \in Reqs :
        /\ InvalidRegister(r) /\ Done(r)
        /\ Decode(req[r].body).params = [Email |-> NoAtEmail, Name |-> EmptyStr]
        /\ resp[r].text = "Email must include an '@' symbol"

\* What the storer's Get returned to request r is an error other than
\* ErrUserNotFound.
GetFailed(r) == obs[r].getErr \notin {"none", Nil, ErrUserNotFound}

\* What the storer's Save returned to request r is an error.
SaveFailed(r) == obs[r].saveErr \notin {"none", Nil}

StepOf(r) == RegisterGet(r) \/ RegisterSave(r) \/ GetUserGet(r)

\* The parts of C15 about the steps of a request: it calls Storage.Get at
\* most once and Storage.Save at most once, Save only after a Get that
\* returned ErrUserNotFound, a GetUser request never calls Save; a response is
\* written exactly when the handler has returned; and a Get that does not
\* return ErrUserNotFound to Register, or any Get of GetUser, ends the
\* request in the same step.
C15_StepsOfARequest ==
    \A r \in Reqs :
        /\ obs[r].gets <= 1 /\ obs[r].saves <= 1
        /\ obs[r].saves = 1 =>
               IsRegister(r) /\ obs[r].gets = 1 /\ obs[r].getErr = ErrUserNotFound
        /\ IsGetUser(r) => obs[r].saves = 0
        /\ Done(r) <=> resp[r].status # 0
        /\ pc[r] = "get" => obs[r].gets = 0
        /\ pc[r] = "save" => obs[r].gets = 1 /\ obs[r].saves = 0
        /\ obs[r].getErr \notin {"none", ErrUserNotFound} => Done(r)
        /\ (IsGetUser(r) /\ obs[r].gets = 1) => Done(r)

\* C15 as claimed: the steps of a request are as above, and every request
\* ends: a request whose handler has not returned can take its next step.
C15_EveryRequestEnds ==
    /\ C15_StepsOfARequest
    /\ \A r \in Reqs : InFlight(r) => ENABLED StepOf(r)

C17_NoSpuriousConflict ==
    \A r \in Reqs :
        (IsRegister(r) /\ Done(r) /\ resp[r].status = StatusForbidden) =>
            \E q \in obs[r].savesSeen \ {r} :
                /\ IsRegister(q)
                /\ params[q].Email = params[r].Email
                /\ obs[q].saves = 1

C17_Witness ==
    \E r \in Reqs :
        /\ ValidRegister(r) /\ Done(r)
        /\ resp[r].status = StatusForbidden
        /\ obs[r].savesSeen # {}
        /\ \E q \in Reqs :
            /\ ValidRegister(q) /\ Done(q)
            /\ params[q].Email # params[r].Email
            /\ resp[q].status = StatusCreated

\* The requests received so far.
Started == 1..nStarted

\* All requests received so far are valid Register requests for pairwise
\* different emails.
DistinctRegistersOnly ==
    /\ \A r \in Started : ValidRegister(r)
    /\ \A r, q \in Started : r # q => params[r].Email # params[q].Email

\* The parts of C18 about the outcome: among valid Register requests for
\* pairwise different emails, each finished one has answered 201 and, once
\* all have finished, the store holds the record of each with its own name.
C18_DistinctEmailsAllCreated ==
    DistinctRegistersOnly =>
        /\ \A r \in Started : Done(r) => resp[r].status = StatusCreated
        /\ (\A r \in Started : Done(r)) =>
               \A r \in Started :
                   Stored(params[r].Email) =
                       <<[Email |-> params[r].Email,
                          Name |-> Decode(req[r].body).params.Name]>>

\* C18 as claimed: valid Register requests for pairwise different emails do
\* not interfere: none stops another, and the outcome is as above.
C18_DistinctEmailsDoNotInterfere ==
    /\ C18_DistinctEmailsAllCreated
    /\ DistinctRegistersOnly => ~crashed

=============================================================================
